---- MODULE Spec2Model ----
(***************************************************************************)
(* Model of the preloadcheck analyzer of your-moon/gpc: the two-pass       *)
(* association of Preload call sites with the model type of a Find call    *)
(* (run, findModelTypeForPreload) and the walk of a dotted relation path   *)
(* through struct fields (checkPreloadPath).                               *)
(*                                                                         *)
(* go/types values are tagged tuples:                                      *)
(*   <<"Basic", n>>  <<"Named", n>>  <<"Pointer", t>>  <<"Slice", t>>      *)
(*   <<"Interface", "">>                                                   *)
(* and a type environment maps the name of a named type to its underlying  *)
(* type, <<"Struct", fields>> (fields a sequence of <<name, type>>) or a   *)
(* basic type.  The empty string is checkPreloadPath's "no error".         *)
(***************************************************************************)
EXTENDS Integers, Sequences, FiniteSets, TLC

VARIABLES
    decl,       \* path validator: the type environment under validation
    t,          \* path validator: the type handed to checkPreloadPath
    parts,      \* path validator: the path segments
    err,        \* path validator: the returned failure text ("" = success)
    vpc,        \* path validator: "ready" before the call, "loop" inside the
                \*                 for loop, "done" after the return
    wi,         \* path validator: the number of segments the loop has examined
    wnamed,     \* path validator: the loop's named, the struct being scanned
    variant,    \* analyzer: which run analyzes the file, "typeaware" (the
                \*           run with findModelInSameChain) or "simple" (the
                \*           run of pkg/preloadcheck)
    prog,       \* analyzer: the analyzed file, [stmts, gap]
    modelTypes, \* analyzer: run's map from Find call node to model type
    phase,      \* analyzer: "first" pass, "second" pass, or "done"
    cursor,     \* analyzer: index of the next call node ast.Inspect visits
    resolved,   \* analyzer: per visited literal Preload call, the value of
                \*           run's local modelType (Nil when none was found)
    diags,      \* analyzer: the diagnostics reported through pass.Reportf
    fn,         \* command-line tool: the function under call ("" when none)
    input,      \* command-line tool: the arguments of the call
    output,     \* command-line tool: the value the call returned
    tpc         \* command-line tool: "ready" before the call, "done" after
                \*                    the return, "idle" when no call is made

pathVars == <<decl, t, parts, err, vpc, wi, wnamed>>
runVars == <<variant, prog, modelTypes, phase, cursor, resolved, diags>>
toolVars == <<fn, input, output, tpc>>
vars ==
    <<decl, t, parts, err, vpc, wi, wnamed, variant, prog, modelTypes, phase,
      cursor, resolved, diags, fn, input, output, tpc>>

\* the command-line tool's variables while the analyzer or the path
\* validator runs
ToolIdle ==
    /\ fn = ""
    /\ input = <<>>
    /\ output = <<>>
    /\ tpc = "idle"

----------------------------------------------------------------------------
(* Bounds *)

\* longest path handed to checkPreloadPath
MaxPathLen == 3

\* most statements in an analyzed file
MaxStmts == 3

----------------------------------------------------------------------------
(* go/types *)

Basic(n) == <<"Basic", n>>
Named(n) == <<"Named", n>>
Pointer(e) == <<"Pointer", e>>
Slice(e) == <<"Slice", e>>
Interface == <<"Interface", "">>
Struct(fields) == <<"Struct", fields>>

\* strings.Join(elems, sep)
RECURSIVE Join(_, _)
Join(elems, sep) ==
    IF Len(elems) = 0 THEN ""
    ELSE IF Len(elems) = 1 THEN elems[1]
    ELSE elems[1] \o sep \o Join(Tail(elems), sep)

\* a scan that starts at the second field
RECURSIVE FieldScanFromSecond(_, _, _)
FieldScanFromSecond(fields, part, j) ==
    IF j > Len(fields) THEN 0
    ELSE IF j > 1 /\ fields[j][1] = part THEN j
    ELSE FieldScanFromSecond(fields, part, j + 1)

\* the scan "for j := 0; j < structType.NumFields(); j++ { if f.Name() == part
\* { ...; break } }": the index of the first field named part, 0 if none
RECURSIVE FieldScan(_, _, _)
FieldScan(fields, part, j) ==
    IF j > Len(fields) THEN 0
    ELSE IF fields[j][1] = part THEN j
    ELSE FieldScan(fields, part, j + 1)

\* no unwrapping at all
KeepPointer(ft) == ft

\* "if ptr, ok := fieldType.(*types.Pointer); ok { fieldType = ptr.Elem() }"
UnwrapPointer(ft) == IF ft[1] = "Pointer" THEN ft[2] ELSE ft

\* the walk with the whole path, not the prefix, in the "not found" text
RECURSIVE WalkPathWholePath(_, _, _, _)
WalkPathWholePath(env, named, ps, i) ==
    IF i > Len(ps) THEN ""
    ELSE LET fields == env[named][2]
             j == FieldScan(fields, ps[i], 1)
         IN  IF j = 0
             THEN Join(ps, ".") \o " not found in " \o named
             ELSE LET fieldType == UnwrapPointer(fields[j][2])
                  IN  IF i = Len(ps) THEN ""
                      ELSE IF fieldType[1] # "Named"
                      THEN Join(SubSeq(ps, 1, i), ".") \o " is not a named struct"
                      ELSE IF env[fieldType[2]][1] # "Struct"
                      THEN Join(SubSeq(ps, 1, i), ".") \o " is not a struct"
                      ELSE WalkPathWholePath(env, fieldType[2], ps, i + 1)

\* the walk that stays in the current struct when a field is no named
\* struct, instead of failing
RECURSIVE WalkPathSkipNonStruct(_, _, _, _)
WalkPathSkipNonStruct(env, named, ps, i) ==
    IF i > Len(ps) THEN ""
    ELSE LET fields == env[named][2]
             j == FieldScan(fields, ps[i], 1)
         IN  IF j = 0
             THEN Join(SubSeq(ps, 1, i), ".") \o " not found in " \o named
             ELSE LET fieldType == UnwrapPointer(fields[j][2])
                  IN  IF i = Len(ps) THEN ""
                      ELSE IF fieldType[1] # "Named"
                      THEN WalkPathSkipNonStruct(env, named, ps, i + 1)
                      ELSE IF env[fieldType[2]][1] # "Struct"
                      THEN WalkPathSkipNonStruct(env, named, ps, i + 1)
                      ELSE WalkPathSkipNonStruct(env, fieldType[2], ps, i + 1)

\* the walk that requires a named struct before it looks whether the
\* segment is the last
RECURSIVE WalkPathStructFirst(_, _, _, _)
WalkPathStructFirst(env, named, ps, i) ==
    IF i > Len(ps) THEN ""
    ELSE LET fields == env[named][2]
             j == FieldScan(fields, ps[i], 1)
         IN  IF j = 0
             THEN Join(SubSeq(ps, 1, i), ".") \o " not found in " \o named
             ELSE LET fieldType == UnwrapPointer(fields[j][2])
                  IN  IF fieldType[1] # "Named"
                      THEN Join(SubSeq(ps, 1, i), ".") \o " is not a named struct"
                      ELSE IF env[fieldType[2]][1] # "Struct"
                      THEN Join(SubSeq(ps, 1, i), ".") \o " is not a struct"
                      ELSE IF i = Len(ps) THEN ""
                      ELSE WalkPathStructFirst(env, fieldType[2], ps, i + 1)

\* the body of checkPreloadPath's loop from segment i on, with named the
\* name of the current named struct type
RECURSIVE WalkPath(_, _, _, _)
WalkPath(env, named, ps, i) ==
    IF i > Len(ps) THEN ""
    ELSE LET fields == env[named][2]
             j == FieldScan(fields, ps[i], 1)
         IN  IF j = 0
             THEN Join(SubSeq(ps, 1, i), ".") \o " not found in " \o named
             ELSE LET fieldType == UnwrapPointer(fields[j][2])
                  IN  IF i = Len(ps) THEN ""
                      ELSE IF fieldType[1] # "Named"
                      THEN Join(SubSeq(ps, 1, i), ".") \o " is not a named struct"
                      ELSE IF env[fieldType[2]][1] # "Struct"
                      THEN Join(SubSeq(ps, 1, i), ".") \o " is not a struct"
                      ELSE WalkPath(env, fieldType[2], ps, i + 1)

checkPreloadPath(env, ty, ps) ==
    IF ty[1] # "Named" THEN "not a named type"
    ELSE IF env[ty[2]][1] # "Struct" THEN ty[2] \o " is not a struct"
    ELSE WalkPath(env, ty[2], ps, 1)

----------------------------------------------------------------------------
(* go/ast.  A file is a sequence of expression statements, each a fluent   *)
(* chain recv.M1(a1).M2(a2)...; gap characters separate two statements.    *)
(* A file holds its statements by their source text (with ' for "), which  *)
(* Parse maps to the syntax tree.                                          *)
(* Link j of statement k is the call node <<"Call", k, j>>; its Fun is a   *)
(* selector whose X is the receiver expression: recv for j = 1, the call   *)
(* node of link j-1 otherwise.  A string is a sequence of tokens: the      *)
(* characters "\"" and "." and words free of both.                         *)

\* a types.Type or ast.Node that is nil
Nil == <<"nil", "">>

Ident(n) == <<"Ident", n>>
Selector(x, n) == <<"Selector", x, n>>
CallNode(k, j) == <<"Call", k, j>>
BasicLit(tokens) == <<"BasicLit", tokens>>
AddrOf(n) == <<"Unary&", n>>
NoArg == <<"none", "">>

Link(m, a) == [meth |-> m, arg |-> a]

\* the statements of the analyzed files, by their source text

\* lit.Value of the Preload arguments, quotes included
LitB == <<"\"", "B", "\"">>
LitUserProfileAddress == <<"\"", "User", ".", "Profile", ".", "Address", "\"">>
LitUserProfilAddress == <<"\"", "User", ".", "Profil", ".", "Address", "\"">>

Chain(r, lit, v) ==
    [recv |-> r,
     links |-> << Link("Preload", BasicLit(lit)), Link("Find", AddrOf(v)) >>]

ChainWhere(r, lit, v) ==
    [recv |-> r,
     links |-> << Link("Preload", BasicLit(lit)),
                  Link("Where", BasicLit(<<"\"", "id", "\"">>)),
                  Link("Find", AddrOf(v)) >>]

LoneFind(r, v) == [recv |-> r, links |-> << Link("Find", AddrOf(v)) >>]

LonePreload(r, lit) == [recv |-> r, links |-> << Link("Preload", BasicLit(lit)) >>]

\* the parse of each statement; the variable x has no type-checker object
Parse ==
    [ src \in
        { "d.Preload('B').Find(&a)",
          "d.Preload('User.Profile.Address').Find(&orders)",
          "d.Preload('User.Profil.Address').Find(&orders)",
          "tx.Preload('B').Find(&orders)",
          "d.Preload('User.Profil.Address').Where('id').Find(&orders)",
          "d.Find(&orders)",
          "d.Find(&a)",
          "tx.Find(&a)",
          "d.Find(&x)",
          "d.Preload('B')",
          "d.Preload('User.Profil.Address')" } |->
      CASE src = "d.Preload('B').Find(&a)" -> Chain(Ident("d"), LitB, "a")
        [] src = "d.Preload('User.Profile.Address').Find(&orders)" ->
               Chain(Ident("d"), LitUserProfileAddress, "orders")
        [] src = "d.Preload('User.Profil.Address').Find(&orders)" ->
               Chain(Ident("d"), LitUserProfilAddress, "orders")
        [] src = "tx.Preload('B').Find(&orders)" ->
               Chain(Ident("tx"), LitB, "orders")
        [] src = "d.Preload('User.Profil.Address').Where('id').Find(&orders)" ->
               ChainWhere(Ident("d"), LitUserProfilAddress, "orders")
        [] src = "d.Find(&orders)" -> LoneFind(Ident("d"), "orders")
        [] src = "d.Find(&a)" -> LoneFind(Ident("d"), "a")
        [] src = "tx.Find(&a)" -> LoneFind(Ident("tx"), "a")
        [] src = "d.Find(&x)" -> LoneFind(Ident("d"), "x")
        [] src = "d.Preload('B')" -> LonePreload(Ident("d"), LitB)
        [] src = "d.Preload('User.Profil.Address')" ->
               LonePreload(Ident("d"), LitUserProfilAddress) ]

Stmts == DOMAIN Parse

\* a call with further arguments behind the first: more is the number of
\* characters of ", a2, a3, ..."
LinkMore(m, a, more) == [meth |-> m, arg |-> a, more |-> more]

\* the end of one function body and the header of the next
FuncDecl(header) == [recv |-> <<"FuncDecl", header>>, links |-> <<>>]

\* literal paths with an empty segment, a valid and a mistyped single segment
LitEmpty == <<"\"", "\"">>
LitUserDot == <<"\"", "User", ".", "\"">>
LitDotUser == <<"\"", ".", "User", "\"">>
LitUserDotDotProfile == <<"\"", "User", ".", ".", "Profile", "\"">>
LitUser == <<"\"", "User", "\"">>
LitProfil == <<"\"", "Profil", "\"">>

\* lit.Value of a raw string literal, backquotes included; the backquote is
\* written ^, a character no string of this module can hold
LitRawUserProfile == <<"^", "User", ".", "Profile", "^">>

LoneCall(r, m, a) == [recv |-> r, links |-> << Link(m, a) >>]

TwoPreloads(r, lit1, lit2) ==
    [recv |-> r,
     links |-> << Link("Preload", BasicLit(lit1)), Link("Preload", BasicLit(lit2)) >>]

TwoPreloadsFind(r, lit1, lit2, v) ==
    [recv |-> r,
     links |-> << Link("Preload", BasicLit(lit1)), Link("Preload", BasicLit(lit2)),
                  Link("Find", AddrOf(v)) >>]

\* the parse of the statements with other call shapes: literals with empty
\* segments, two Preload links, a first argument that is no literal,
\* arguments behind the first (a closure of 1000 characters), destination
\* variables up (*User) and n (int), First and FirstOrCreate, and the
\* boundary between two functions
ParseMore ==
    [ src \in
        { "d.Preload('')",
          "d.Preload('User.')",
          "d.Preload('.User')",
          "d.Preload('User..Profile')",
          "d.Preload('User')",
          "d.Preload('Profil')",
          "d.Preload('Profil').Preload('Profil')",
          "d.Preload('Profil').Preload('Profil').Find(&orders)",
          "d.Preload(rel)",
          "d.Preload('Profil', func(d *gorm.DB) *gorm.DB {...})",
          "d.Preload(^User.Profile^)",
          "d.Find(up)",
          "d.Find(&n)",
          "d.First(&orders)",
          "d.FirstOrCreate(&orders)",
          "} func g() {" } |->
      CASE src = "d.Preload('')" -> LonePreload(Ident("d"), LitEmpty)
        [] src = "d.Preload('User.')" -> LonePreload(Ident("d"), LitUserDot)
        [] src = "d.Preload('.User')" -> LonePreload(Ident("d"), LitDotUser)
        [] src = "d.Preload('User..Profile')" ->
               LonePreload(Ident("d"), LitUserDotDotProfile)
        [] src = "d.Preload('User')" -> LonePreload(Ident("d"), LitUser)
        [] src = "d.Preload('Profil')" -> LonePreload(Ident("d"), LitProfil)
        [] src = "d.Preload('Profil').Preload('Profil')" ->
               TwoPreloads(Ident("d"), LitProfil, LitProfil)
        [] src = "d.Preload('Profil').Preload('Profil').Find(&orders)" ->
               TwoPreloadsFind(Ident("d"), LitProfil, LitProfil, "orders")
        [] src = "d.Preload(rel)" -> LoneCall(Ident("d"), "Preload", Ident("rel"))
        [] src = "d.Preload('Profil', func(d *gorm.DB) *gorm.DB {...})" ->
               [recv |-> Ident("d"),
                links |-> << LinkMore("Preload", BasicLit(LitProfil), 1000) >>]
        [] src = "d.Preload(^User.Profile^)" ->
               LonePreload(Ident("d"), LitRawUserProfile)
        [] src = "d.Find(up)" -> LoneCall(Ident("d"), "Find", Ident("up"))
        [] src = "d.Find(&n)" -> LoneFind(Ident("d"), "n")
        [] src = "d.First(&orders)" -> LoneCall(Ident("d"), "First", AddrOf("orders"))
        [] src = "d.FirstOrCreate(&orders)" ->
               LoneCall(Ident("d"), "FirstOrCreate", AddrOf("orders"))
        [] src = "} func g() {" -> FuncDecl("} func g() {") ]

\* the syntax tree of a statement
Tree(src) == IF src \in DOMAIN Parse THEN Parse[src] ELSE ParseMore[src]

\* the parsed statement k of file p
StmtAt(p, k) == Tree(p.stmts[k])

RECURSIVE TextLen(_)
TextLen(tokens) ==
    IF Len(tokens) = 0 THEN 0 ELSE Len(tokens[1]) + TextLen(Tail(tokens))

RECURSIVE ExprLen(_)
ExprLen(x) ==
    IF x[1] = "Ident" \/ x[1] = "FuncDecl" THEN Len(x[2])
    ELSE ExprLen(x[2]) + 1 + Len(x[3])

ArgLen(a) ==
    CASE a[1] = "BasicLit" -> TextLen(a[2])
      [] a[1] = "Unary&" -> 1 + Len(a[2])
      [] a[1] = "Ident" -> Len(a[2])
      [] OTHER -> 0

\* the characters of ".M(a)" or ".M(a, a2, ...)"
LinkLen(l) ==
    1 + Len(l.meth) + 1 + ArgLen(l.arg)
      + (IF "more" \in DOMAIN l THEN l.more ELSE 0) + 1

RECURSIVE LinksLen(_)
LinksLen(ls) ==
    IF Len(ls) = 0 THEN 0 ELSE LinkLen(ls[1]) + LinksLen(Tail(ls))

StmtLen(st) == ExprLen(st.recv) + LinksLen(st.links)

\* the number of characters of each statement
TextLenOf ==
    [src \in DOMAIN Parse \cup DOMAIN ParseMore |-> StmtLen(Tree(src))]

\* the offset of the first character of statement k
RECURSIVE StmtPos(_, _)
StmtPos(p, k) ==
    IF k = 1 THEN 1
    ELSE StmtPos(p, k - 1) + TextLenOf[p.stmts[k - 1]] + p.gap

\* CallExpr.Pos() is Fun.Pos(), SelectorExpr.Pos() is X.Pos(): every call of
\* a chain has the position of the chain's first character
Pos(p, call) == StmtPos(p, call[2])

LinkOf(p, call) == StmtAt(p, call[2]).links[call[3]]

\* sel.X of the call's Fun
Receiver(p, call) ==
    IF call[3] = 1 THEN StmtAt(p, call[2]).recv ELSE CallNode(call[2], call[3] - 1)

\* the call nodes in the order ast.Inspect reaches them: statement by
\* statement, the outermost (last) link of a chain first
RECURSIVE Calls(_, _)
Calls(p, k) ==
    IF k > Len(p.stmts) THEN <<>>
    ELSE LET n == Len(StmtAt(p, k).links)
         IN  [i \in 1..n |-> CallNode(k, n + 1 - i)] \o Calls(p, k + 1)

----------------------------------------------------------------------------
(* The type-aware analyzer *)

\* the distance bounds of findModelInSameChain and findClosestModel
ChainDistance == 1000
ClosestDistance == 20

\* ^token.Pos(0), the initial closestDistance: token.Pos is a signed int
AllOnesPos == 0 - 1

\* the package under analysis: the types of testdata.go and two small
\* structs, and the variables Find is given
PkgTypes ==
    [n \in {"Address", "Profile", "User", "Order", "A", "B"} |->
        CASE n = "Address" -> Struct(<< <<"City", Basic("string")>> >>)
          [] n = "Profile" -> Struct(<< <<"Address", Named("Address")>> >>)
          [] n = "User" -> Struct(<< <<"Profile", Named("Profile")>> >>)
          [] n = "Order" -> Struct(<< <<"User", Named("User")>> >>)
          [] n = "A" -> Struct(<< <<"B", Named("B")>> >>)
          [] n = "B" -> Struct(<< <<"A", Named("A")>> >>)]

\* pass.TypesInfo.ObjectOf(ident).Type(); Nil when ObjectOf gives nil
ObjectType(name) ==
    CASE name = "orders" -> Slice(Named("Order"))
      [] name = "a" -> Slice(Named("A"))
      [] name = "up" -> Pointer(Named("User"))
      [] name = "n" -> Basic("int")
      [] OTHER -> Nil

\* "if slice, ok := modelType.(*types.Slice); ok { modelType = slice.Elem() }"
UnwrapSlice(ty) == IF ty[1] = "Slice" THEN ty[2] ELSE ty

\* the model type run's first pass computes for a Find call's first argument
FindModelType(arg) ==
    IF arg[1] = "Unary&" \/ arg[1] = "Ident"
    THEN LET ty == ObjectType(arg[2])
         IN  IF ty[1] = "nil" THEN Nil ELSE UnwrapSlice(ty)
    ELSE Nil

\* strings.Trim(s, cut) for a one-character cutset
RECURSIVE TrimLeft(_, _)
TrimLeft(s, cut) ==
    IF Len(s) > 0 /\ s[1] = cut THEN TrimLeft(Tail(s), cut) ELSE s

RECURSIVE TrimRight(_, _)
TrimRight(s, cut) ==
    IF Len(s) > 0 /\ s[Len(s)] = cut
    THEN TrimRight(SubSeq(s, 1, Len(s) - 1), cut) ELSE s

Trim(s, cut) == TrimRight(TrimLeft(s, cut), cut)

\* strings.Split(s, sep): the pieces between the separators, cur the piece
\* being collected
RECURSIVE SplitFrom(_, _, _)
SplitFrom(s, sep, cur) ==
    IF Len(s) = 0 THEN <<cur>>
    ELSE IF s[1] = sep THEN <<cur>> \o SplitFrom(Tail(s), sep, "")
    ELSE SplitFrom(Tail(s), sep, cur \o s[1])

\* a split that drops the empty pieces, as strings.FieldsFunc does
SplitDroppingEmpty(s, sep) ==
    SelectSeq(SplitFrom(s, sep, ""), LAMBDA piece : piece # "")

Split(s, sep) == SplitFrom(s, sep, "")

RECURSIVE sameReceiver(_, _, _)
sameReceiver(p, node1, node2) ==
    IF node1[1] = "Ident" /\ node2[1] = "Ident" THEN node1[2] = node2[2]
    ELSE IF node1[1] = "Selector" /\ node2[1] = "Selector"
    THEN sameReceiver(p, node1[2], node2[2]) /\ node1[3] = node2[3]
    ELSE FALSE

\* the tests without "findCall.Pos() > preloadCall.Pos()", the distance
\* taken on either side
SameChainFindsEitherSide(p, mts, preloadCall) ==
    { findCall \in DOMAIN mts :
        /\ sameReceiver(p, Receiver(p, preloadCall), Receiver(p, findCall))
        /\ Pos(p, findCall) - Pos(p, preloadCall) < ChainDistance
        /\ Pos(p, preloadCall) - Pos(p, findCall) < ChainDistance }

\* the Find calls findModelInSameChain may return the model type of: the
\* range over the map stops at the first call, in an unspecified order,
\* that passes the three tests
SameChainFinds(p, mts, preloadCall) ==
    { findCall \in DOMAIN mts :
        /\ Pos(p, findCall) > Pos(p, preloadCall)
        /\ sameReceiver(p, Receiver(p, preloadCall), Receiver(p, findCall))
        /\ Pos(p, findCall) - Pos(p, preloadCall) < ChainDistance }

findModelInSameChain(p, mts, preloadCall) ==
    LET finds == SameChainFinds(p, mts, preloadCall)
    IN  IF finds = {} THEN {Nil} ELSE finds

\* findClosestModel's loop over the Find calls not yet visited, in every
\* order the range over the map may take; distance[findCall] is
\* findCall.Pos() - preloadCall.Pos(), best is
\* <<closestDistance, closestFindCall>>
RECURSIVE ClosestLoop(_, _, _)
ClosestLoop(distance, todo, best) ==
    IF todo = {} THEN {best[2]}
    ELSE UNION {
        ClosestLoop(distance, todo \ {findCall},
            IF /\ distance[findCall] > 0
               /\ distance[findCall] < ClosestDistance
               /\ distance[findCall] < best[1]
            THEN <<distance[findCall], findCall>> ELSE best)
        : findCall \in todo }

\* a Find call failing one of the first two tests of the loop body leaves
\* best as it is wherever it comes in the order, so the loop is run over
\* the calls that pass them
findClosestModel(p, mts, preloadCall) ==
    LET distance == [findCall \in DOMAIN mts |->
                        Pos(p, findCall) - Pos(p, preloadCall)]
        near == { findCall \in DOMAIN mts :
                    distance[findCall] > 0 /\ distance[findCall] < ClosestDistance }
    IN  ClosestLoop(distance, near, <<AllOnesPos, Nil>>)

\* the Find calls whose model type findModelTypeForPreload may return,
\* {Nil} when it returns nil
findModelTypeForPreload(p, mts, preloadCall) ==
    LET sameChain == findModelInSameChain(p, mts, preloadCall)
    IN  IF sameChain # {Nil} THEN sameChain
        ELSE findClosestModel(p, mts, preloadCall)

\* the run of pkg/preloadcheck: its first pass records obj.Type() as it is
FindModelTypeSimple(arg) ==
    IF arg[1] = "Unary&" \/ arg[1] = "Ident" THEN ObjectType(arg[2]) ELSE Nil

\* findModelTypeForPreload of pkg/preloadcheck: the range over the map
\* returns at the first Find call, in an unspecified order, positioned
\* before the Preload call
findModelTypeForPreloadSimple(p, mts, preloadCall) ==
    LET before == { findCall \in DOMAIN mts :
                      Pos(p, findCall) < Pos(p, preloadCall) }
    IN  IF before = {} THEN {Nil} ELSE before

Diagnostic(pos, msg) == [pos |-> pos, msg |-> msg]

\* the report without the "if modelType == nil { return true }" before it
ReportsUnguarded(env, p, call, modelType, ps) ==
    IF checkPreloadPath(env, modelType, ps) # ""
    THEN << Diagnostic(Pos(p, call),
                       "invalid preload: " \o checkPreloadPath(env, modelType, ps)) >>
    ELSE <<>>

\* what run's second pass reports for a literal Preload call once
\* findModelTypeForPreload has returned modelType
Reports(env, p, call, modelType, ps) ==
    IF modelType[1] = "nil" THEN <<>>
    ELSE IF checkPreloadPath(env, modelType, ps) # ""
    THEN << Diagnostic(Pos(p, call),
                       "invalid preload: " \o checkPreloadPath(env, modelType, ps)) >>
    ELSE <<>>

----------------------------------------------------------------------------
(* Inputs of the path validator: every type environment over two struct    *)
(* types with up to two fields each, and every path over the field names   *)
(* and one name that is no field.                                          *)

StructNames == {"Order", "User"}

\* a named type whose underlying type is no struct (type Status int)
TypeNames == StructNames \cup {"Status"}

\* the declared types a first field may have; "none" = the field is absent
OwnerTypes ==
    { Basic("string"), Named("Order"), Named("User"), Pointer(Named("User")),
      Slice(Named("User")), Interface, Named("Status") }

\* the declared types a second field may have
ItemsTypes == { Basic("string"), Slice(Named("User")) }

Absent == <<"none", "">>

FieldsOf(o, i) ==
    (IF o = Absent THEN <<>> ELSE << <<"Owner", o>> >>)
        \o (IF i = Absent THEN <<>> ELSE << <<"Items", i>> >>)

TypeEnvs ==
    { [n \in TypeNames |->
          IF n = "Status" THEN Basic("int")
          ELSE IF n = "Order" THEN Struct(FieldsOf(c[1], c[2]))
          ELSE Struct(FieldsOf(c[3], c[4]))] :
      c \in (OwnerTypes \cup {Absent}) \X (ItemsTypes \cup {Absent})
              \X (OwnerTypes \cup {Absent}) \X (ItemsTypes \cup {Absent}) }

\* "Ownr" is a mistyped segment: no struct has a field of that name
Segments == {"Owner", "Items", "Ownr"}

RECURSIVE PathsUpTo(_)
PathsUpTo(n) ==
    IF n = 0 THEN { <<>> }
    ELSE LET shorter == PathsUpTo(n - 1)
         IN  shorter \cup { Append(p, s) : p \in { q \in shorter : Len(q) = n - 1 },
                                              s \in Segments }

\* the analyzer's variables while only the path validator runs
RunIdle ==
    /\ variant = "typeaware"
    /\ prog = [stmts |-> <<>>, gap |-> 1]
    /\ modelTypes = <<>>
    /\ phase = "idle"
    /\ cursor = 1
    /\ resolved = <<>>
    /\ diags = <<>>

PathInit ==
    /\ decl \in TypeEnvs
    /\ t \in { Named(n) : n \in StructNames }
    /\ parts \in PathsUpTo(MaxPathLen)
    /\ err = ""
    /\ vpc = "ready"
    /\ wi = 0
    /\ wnamed = ""
    /\ RunIdle
    /\ ToolIdle

\* one call checkPreloadPath(pass, t, parts)
Validate ==
    /\ vpc = "ready"
    /\ err' = checkPreloadPath(decl, t, parts)
    /\ vpc' = "done"
    /\ UNCHANGED <<decl, t, parts, wi, wnamed>>
    /\ UNCHANGED runVars
    /\ UNCHANGED toolVars

PathNext == Validate

PathSpec == PathInit /\ [][PathNext]_vars

----------------------------------------------------------------------------
(* checkPreloadPath one loop iteration at a time, over type graphs with    *)
(* self-referential and mutually recursive structs.                        *)

\* a loop body that stays on the segment when the field leads back to the
\* struct being scanned
LoopBodyStayOnSelf(env, named, ps, i) ==
    LET fields == env[named][2]
        j == FieldScan(fields, ps[i], 1)
        here == Join(SubSeq(ps, 1, i), ".")
    IN  IF j = 0
        THEN [ret |-> TRUE, err |-> here \o " not found in " \o named,
              named |-> named, examined |-> i]
        ELSE LET fieldType == UnwrapPointer(fields[j][2])
             IN  IF fieldType = Named(named)
                 THEN [ret |-> FALSE, err |-> "", named |-> named, examined |-> i - 1]
                 ELSE IF i = Len(ps)
                 THEN [ret |-> TRUE, err |-> "", named |-> named, examined |-> i]
                 ELSE IF fieldType[1] # "Named"
                 THEN [ret |-> TRUE, err |-> here \o " is not a named struct",
                       named |-> named, examined |-> i]
                 ELSE IF env[fieldType[2]][1] # "Struct"
                 THEN [ret |-> TRUE, err |-> here \o " is not a struct",
                       named |-> named, examined |-> i]
                 ELSE [ret |-> FALSE, err |-> "", named |-> fieldType[2],
                       examined |-> i]

\* the body of "for i, part := range parts" for segment i (counted from 1):
\* whether it returns, the value it returns, named after it, and the number
\* of segments examined
LoopBody(env, named, ps, i) ==
    LET fields == env[named][2]
        j == FieldScan(fields, ps[i], 1)
        here == Join(SubSeq(ps, 1, i), ".")
    IN  IF j = 0
        THEN [ret |-> TRUE, err |-> here \o " not found in " \o named,
              named |-> named, examined |-> i]
        ELSE LET fieldType == UnwrapPointer(fields[j][2])
             IN  IF i = Len(ps)
                 THEN [ret |-> TRUE, err |-> "", named |-> named, examined |-> i]
                 ELSE IF fieldType[1] # "Named"
                 THEN [ret |-> TRUE, err |-> here \o " is not a named struct",
                       named |-> named, examined |-> i]
                 ELSE IF env[fieldType[2]][1] # "Struct"
                 THEN [ret |-> TRUE, err |-> here \o " is not a struct",
                       named |-> named, examined |-> i]
                 ELSE [ret |-> FALSE, err |-> "", named |-> fieldType[2],
                       examined |-> i]

\* the type graphs: Order and User with the field Owner of any type, among
\* them Order.Owner Order and Order.Owner User with User.Owner Order
GraphEnvs ==
    { env \in TypeEnvs :
        \A n \in StructNames :
            \A j \in 1..Len(env[n][2]) : env[n][2][j][1] = "Owner" }

WalkInit ==
    /\ decl \in GraphEnvs
    /\ t \in { Named(n) : n \in StructNames }
    /\ parts \in PathsUpTo(MaxPathLen)
    /\ err = ""
    /\ vpc = "ready"
    /\ wi = 0
    /\ wnamed = ""
    /\ RunIdle
    /\ ToolIdle

\* the statements before the loop
WalkEnter ==
    /\ vpc = "ready"
    /\ IF t[1] # "Named"
       THEN err' = "not a named type" /\ vpc' = "done" /\ wnamed' = wnamed
       ELSE IF decl[t[2]][1] # "Struct"
       THEN err' = t[2] \o " is not a struct" /\ vpc' = "done" /\ wnamed' = wnamed
       ELSE err' = err /\ vpc' = "loop" /\ wnamed' = t[2]
    /\ UNCHANGED <<decl, t, parts, wi>>
    /\ UNCHANGED runVars
    /\ UNCHANGED toolVars

\* one iteration of the loop
WalkStep ==
    /\ vpc = "loop"
    /\ wi < Len(parts)
    /\ LET body == LoopBody(decl, wnamed, parts, wi + 1)
       IN  /\ wi' = body.examined
           /\ wnamed' = body.named
           /\ err' = body.err
           /\ vpc' = IF body.ret THEN "done" ELSE "loop"
    /\ UNCHANGED <<decl, t, parts>>
    /\ UNCHANGED runVars
    /\ UNCHANGED toolVars

\* the return behind the loop
WalkReturn ==
    /\ vpc = "loop"
    /\ wi >= Len(parts)
    /\ err' = ""
    /\ vpc' = "done"
    /\ UNCHANGED <<decl, t, parts, wi, wnamed>>
    /\ UNCHANGED runVars
    /\ UNCHANGED toolVars

WalkNext == WalkEnter \/ WalkStep \/ WalkReturn

\* the call runs to its return: nothing else is scheduled
WalkSpec == WalkInit /\ [][WalkNext]_vars /\ WF_vars(WalkNext)

----------------------------------------------------------------------------
(* Inputs of the analyzer: every file of up to MaxStmts statements drawn   *)
(* from chains Preload(lit).Find(&v), a chain with a Where link in         *)
(* between, lone Find(&v) calls and lone Preload(lit) calls.               *)

\* the characters between two statements: a ";" or a longer run of blanks
Gaps == {1, 6}

Programs ==
    { [stmts |-> ss, gap |-> g] :
        ss \in UNION { [1..n -> Stmts] : n \in 1..MaxStmts }, g \in Gaps }

\* the path validator's variables while the analyzer runs
PathIdle ==
    /\ decl = <<>>
    /\ t = Nil
    /\ parts = <<>>
    /\ err = ""
    /\ vpc = "idle"
    /\ wi = 0
    /\ wnamed = ""

Init ==
    /\ variant = "typeaware"
    /\ prog \in Programs
    /\ modelTypes = <<>>
    /\ phase = "first"
    /\ cursor = 1
    /\ resolved = <<>>
    /\ diags = <<>>
    /\ PathIdle
    /\ ToolIdle

\* the move of ast.Inspect to the next call node, or to the next pass
Advance(next) ==
    IF cursor = Len(Calls(prog, 1))
    THEN phase' = next /\ cursor' = 1
    ELSE phase' = phase /\ cursor' = cursor + 1

\* the first pass's callback on one call node
FirstPassVisit ==
    /\ phase = "first"
    /\ LET call == Calls(prog, 1)[cursor]
           l == LinkOf(prog, call)
           modelType == IF variant = "simple" THEN FindModelTypeSimple(l.arg)
                        ELSE FindModelType(l.arg)
       IN  modelTypes' =
               IF l.meth = "Find" /\ l.arg[1] # "none" /\ modelType[1] # "nil"
               THEN modelTypes @@ (call :> modelType)
               ELSE modelTypes
    /\ Advance("second")
    /\ UNCHANGED <<variant, prog, resolved, diags>>
    /\ UNCHANGED pathVars
    /\ UNCHANGED toolVars

\* the second pass's callback on one call node
SecondPassVisit ==
    /\ phase = "second"
    /\ LET call == Calls(prog, 1)[cursor]
           l == LinkOf(prog, call)
       IN  IF l.meth = "Preload" /\ l.arg[1] = "BasicLit"
           THEN \E findCall \in
                      (IF variant = "simple"
                       THEN findModelTypeForPreloadSimple(prog, modelTypes, call)
                       ELSE findModelTypeForPreload(prog, modelTypes, call)) :
                   LET modelType == IF findCall[1] = "nil" THEN Nil
                                    ELSE modelTypes[findCall]
                       preloadPath == Trim(l.arg[2], "\"")
                   IN  /\ resolved' = resolved @@
                              (call :> [find |-> findCall, type |-> modelType])
                       /\ diags' = diags \o Reports(PkgTypes, prog, call, modelType,
                                                    Split(preloadPath, "."))
           ELSE UNCHANGED <<resolved, diags>>
    /\ Advance("done")
    /\ UNCHANGED <<variant, prog, modelTypes>>
    /\ UNCHANGED pathVars
    /\ UNCHANGED toolVars

Next == FirstPassVisit \/ SecondPassVisit

Spec == Init /\ [][Next]_vars

----------------------------------------------------------------------------
(* Files about the Preload argument: literals with an empty segment, two   *)
(* Preload links in one chain, an argument that is no literal, arguments   *)
(* behind the first.                                                       *)

LiteralStmts ==
    { "d.Preload('')",
      "d.Preload('User.')",
      "d.Preload('.User')",
      "d.Preload('User..Profile')",
      "d.Preload('User')",
      "d.Preload('Profil')",
      "d.Preload('Profil').Preload('Profil')",
      "d.Preload('Profil').Preload('Profil').Find(&orders)",
      "d.Preload(rel)",
      "d.Preload('Profil', func(d *gorm.DB) *gorm.DB {...})",
      "d.Find(&orders)" }

ProgramsOver(stmts) ==
    { [stmts |-> ss, gap |-> g] :
        ss \in UNION { [1..n -> stmts] : n \in 1..MaxStmts }, g \in Gaps }

LiteralInit ==
    /\ variant = "typeaware"
    /\ prog \in ProgramsOver(LiteralStmts)
    /\ modelTypes = <<>>
    /\ phase = "first"
    /\ cursor = 1
    /\ resolved = <<>>
    /\ diags = <<>>
    /\ PathIdle
    /\ ToolIdle

LiteralSpec == LiteralInit /\ [][Next]_vars

----------------------------------------------------------------------------
(* Files about the materialization call: destination variables of pointer  *)
(* and basic type, First and FirstOrCreate, a Find before the Preload, a   *)
(* Find in another function; analyzed by either run.                       *)

SiteStmts ==
    { "d.Preload('User')",
      "d.Preload('Profil')",
      "d.Preload(^User.Profile^)",
      "d.Find(&orders)",
      "d.Find(up)",
      "d.Find(&n)",
      "d.First(&orders)",
      "d.FirstOrCreate(&orders)",
      "} func g() {" }

Variants == {"typeaware", "simple"}

\* ast.Inspect calls back on a file that has a call node
SiteInit ==
    /\ variant \in Variants
    /\ prog \in { p \in ProgramsOver(SiteStmts) : Len(Calls(p, 1)) > 0 }
    /\ modelTypes = <<>>
    /\ phase = "first"
    /\ cursor = 1
    /\ resolved = <<>>
    /\ diags = <<>>
    /\ PathIdle
    /\ ToolIdle

SiteSpec == SiteInit /\ [][Next]_vars

----------------------------------------------------------------------------
(* Reference notions the path claims are stated with; they do not use the  *)
(* operators above.                                                        *)

\* the declared type of field f of struct sname, Absent if it has none
DeclaredType(env, sname, f) ==
    LET fs == env[sname][2]
        at == { j \in 1..Len(fs) : fs[j][1] = f }
    IN  IF at = {} THEN Absent ELSE fs[CHOOSE j \in at : TRUE][2]

IsStructType(env, ty) == ty[1] = "Named" /\ env[ty[2]][1] = "Struct"

\* ty with one pointer indirection removed when ptr allows it
Deref(ty, ptr) == IF ptr /\ ty[1] = "Pointer" THEN ty[2] ELSE ty

\* the struct reached from struct sname by the segments ps, each of which
\* must name a field whose type is a named struct (or, when ptr, a pointer
\* to one); "" when some segment does not
RECURSIVE Reached(_, _, _, _)
Reached(env, sname, ps, ptr) ==
    IF Len(ps) = 0 THEN sname
    ELSE LET u == Deref(DeclaredType(env, sname, ps[1]), ptr)
         IN  IF IsStructType(env, u) THEN Reached(env, u[2], Tail(ps), ptr)
             ELSE ""

Prefix(ps, k) == SubSeq(ps, 1, k)

\* env with field k of struct sname retyped
Retype(env, sname, k, ty) ==
    [env EXCEPT ![sname] =
        Struct([env[sname][2] EXCEPT ![k] = <<env[sname][2][k][1], ty>>])]

FieldSlots(env) ==
    UNION { { <<s, k>> : k \in 1..Len(env[s][2]) } : s \in StructNames }

\* parts walks through field k of struct s at a non-final segment
ThroughField(s, k) ==
    \E i \in 1..(Len(parts) - 1) :
        /\ Reached(decl, t[2], Prefix(parts, i - 1), TRUE) = s
        /\ parts[i] = decl[s][2][k][1]

----------------------------------------------------------------------------
(* Claims about checkPreloadPath *)

\* C4: collection wrapping is transparent: retyping any field of named
\* struct type S as []S leaves the result of checkPreloadPath unchanged,
\* for every path and at every segment position.
C4_SliceTransparent ==
    vpc = "done" =>
        \A sk \in FieldSlots(decl) :
            LET ft == decl[sk[1]][2][sk[2]][2]
            IN  IsStructType(decl, ft) =>
                    checkPreloadPath(Retype(decl, sk[1], sk[2], Slice(ft)), t, parts) = err

\* C5: validating the empty path fails for every model type.
C5_EmptyPathFails ==
    (vpc = "done" /\ parts = <<>>) => err # ""

C7_ValidPathSucceeds ==
    (/\ vpc = "done"
     /\ Len(parts) > 0
     /\ Reached(decl, t[2], Prefix(parts, Len(parts) - 1), FALSE) # ""
     /\ DeclaredType(decl,
                     Reached(decl, t[2], Prefix(parts, Len(parts) - 1), FALSE),
                     parts[Len(parts)]) # Absent)
        => err = ""

\* a valid path of full length through two distinct struct types
C7_Witness ==
    /\ vpc = "done"
    /\ Len(parts) = MaxPathLen
    /\ t = Named("Order")
    /\ Reached(decl, t[2], Prefix(parts, 1), FALSE) = "User"
    /\ Reached(decl, t[2], Prefix(parts, Len(parts) - 1), FALSE) # ""
    /\ DeclaredType(decl,
                    Reached(decl, t[2], Prefix(parts, Len(parts) - 1), FALSE),
                    parts[Len(parts)]) # Absent
    /\ err = ""

\* C8: pointer wrapping is transparent: retyping any field of type *S as S
\* (S a named type) leaves the result of checkPreloadPath unchanged, for
\* every path and at every segment position.
C8_PointerTransparent ==
    vpc = "done" =>
        \A sk \in FieldSlots(decl) :
            LET ft == decl[sk[1]][2][sk[2]][2]
            IN  (ft[1] = "Pointer" /\ ft[2][1] = "Named") =>
                    checkPreloadPath(Retype(decl, sk[1], sk[2], ft[2]), t, parts) = err

\* a path that continues through a pointer field and fails behind it
C8_Witness ==
    /\ vpc = "done"
    /\ \E sk \in FieldSlots(decl) :
          /\ decl[sk[1]][2][sk[2]][2][1] = "Pointer"
          /\ ThroughField(sk[1], sk[2])
    /\ Len(parts) = 3
    /\ err = "Owner.Owner.Ownr not found in User"

\* C9: when a path validates, every non-empty strict prefix validates and
\* ends at a field whose type, one pointer removed, is a named struct.
C9_PrefixValidity ==
    (vpc = "done" /\ err = "") =>
        \A k \in 1..(Len(parts) - 1) :
            /\ checkPreloadPath(decl, t, Prefix(parts, k)) = ""
            /\ Reached(decl, t[2], Prefix(parts, k), TRUE) # ""

C9_Witness ==
    /\ vpc = "done"
    /\ err = ""
    /\ Len(parts) = 3

\* C10: a single segment naming a field of T validates whatever the
\* declared type of the field.
C10_SingleSegmentSucceeds ==
    (/\ vpc = "done"
     /\ Len(parts) = 1
     /\ DeclaredType(decl, t[2], parts[1]) # Absent)
        => err = ""

\* a single segment naming a field of interface type
C10_Witness ==
    /\ vpc = "done"
    /\ Len(parts) = 1
    /\ DeclaredType(decl, t[2], parts[1]) = Interface
    /\ err = ""

----------------------------------------------------------------------------
(* Claims about the association of Preload calls *)

LastLink(st) == st.links[Len(st.links)]

\* a fluent chain r.Preload(p)...Find(&v)
IsChain(st) ==
    /\ LastLink(st).meth = "Find"
    /\ \E j \in 1..(Len(st.links) - 1) : st.links[j].meth = "Preload"

\* the model type of the destination variable of the chain's Find: the
\* element type of a slice, Nil when the variable has no object
DestModel(st) ==
    LET ty == ObjectType(LastLink(st).arg[2])
    IN  IF ty[1] = "Slice" THEN ty[2] ELSE ty

\* the segments ps walk through fields of struct sname
ValidFor(env, sname, ps) ==
    /\ Len(ps) > 0
    /\ Reached(env, sname, Prefix(ps, Len(ps) - 1), TRUE) # ""
    /\ DeclaredType(env, Reached(env, sname, Prefix(ps, Len(ps) - 1), TRUE),
                    ps[Len(ps)]) # Absent

DiagsAt(pos) == { i \in 1..Len(diags) : diags[i].pos = pos }

\* C1: of two fluent chains A and B of one file whose destination variables
\* have distinct model types TA and TB, a Preload call of chain A is
\* validated against TA or skipped, never against TB, and a path naming
\* fields of TA yields no diagnostic.
C1_AssociationPrecision ==
    phase = "done" =>
        \A kA, kB \in 1..Len(prog.stmts) :
            LET A == StmtAt(prog, kA)
                B == StmtAt(prog, kB)
            IN  (/\ kA # kB
                 /\ IsChain(A) /\ IsChain(B)
                 /\ DestModel(A)[1] = "Named" /\ DestModel(B)[1] = "Named"
                 /\ DestModel(A)[2] # DestModel(B)[2])
                =>
                \A j \in 1..Len(A.links) :
                    A.links[j].meth = "Preload" =>
                        /\ \/ resolved[CallNode(kA, j)].type[1] = "nil"
                           \/ resolved[CallNode(kA, j)].type[2] = DestModel(A)[2]
                        /\ ValidFor(PkgTypes, DestModel(A)[2],
                                    Split(Trim(A.links[j].arg[2], "\""), "."))
                             => DiagsAt(StmtPos(prog, kA)) = {}

\* C2: a Preload link of a chain ending in Find(&dest) is associated with
\* that Find and validated against the model type of dest; so the file
\* holding only d.Preload("User.Profil.Address").Find(&orders) gets the one
\* diagnostic "invalid preload: User.Profil not found in User".
C2_SameChainAssociated ==
    phase = "done" =>
        /\ \A k \in 1..Len(prog.stmts) :
              LET st == StmtAt(prog, k)
              IN  (IsChain(st) /\ DestModel(st)[1] = "Named") =>
                      \A j \in 1..Len(st.links) :
                          st.links[j].meth = "Preload" =>
                              /\ resolved[CallNode(k, j)].find = CallNode(k, Len(st.links))
                              /\ resolved[CallNode(k, j)].type = DestModel(st)
        /\ prog.stmts = << "d.Preload('User.Profil.Address').Find(&orders)" >>
              => diags = << Diagnostic(1, "invalid preload: User.Profil not found in User") >>

\* C3: every diagnostic stands at a Preload call for which
\* findModelTypeForPreload returned the model type of a recorded Find call
\* whose destination variable has a type-checker object, and the Preload
\* calls for which it returned nil add no diagnostic.
C3_DiagnosticOnlyIfAssociated ==
    /\ \A i \in 1..Len(diags) :
          \E c \in DOMAIN resolved :
              /\ Pos(prog, c) = diags[i].pos
              /\ resolved[c].type[1] # "nil"
              /\ resolved[c].find \in DOMAIN modelTypes
              /\ LinkOf(prog, resolved[c].find).meth = "Find"
              /\ ObjectType(LinkOf(prog, resolved[c].find).arg[2])[1] # "nil"
    /\ Len(diags) <= Cardinality({ c \in DOMAIN resolved : resolved[c].type[1] # "nil" })

\* a finished run in which one Preload call was skipped and another, with
\* a model type found for it, was reported
C3_Witness ==
    /\ phase = "done"
    /\ \E c \in DOMAIN resolved : resolved[c].type[1] = "nil"
    /\ \E c \in DOMAIN resolved : resolved[c].type[1] = "Named"
    /\ Len(diags) = 1

----------------------------------------------------------------------------
(* Claims about the Preload argument *)

\* the positions of the dots of a string
DotsOf(v) == { i \in 1..Len(v) : v[i] = "." }

\* the segments of the path an interpreted literal spells: what stands
\* between the quotes, cut at each dot; bound(j) is the position of dot j,
\* with the opening quote as dot 0 and the closing quote as the last
LiteralSegments(lit) ==
    LET v == SubSeq(lit, 2, Len(lit) - 1)
        n == Cardinality(DotsOf(v))
        bound(j) == IF j = 0 THEN 0
                    ELSE IF j = n + 1 THEN Len(v) + 1
                    ELSE CHOOSE i \in DotsOf(v) :
                            Cardinality({ d \in DotsOf(v) : d < i }) = j - 1
    IN  [j \in 1..(n + 1) |->
            IF bound(j) = bound(j - 1) + 1 THEN "" ELSE v[bound(j - 1) + 1]]

\* C11: a Preload call whose literal path has an empty segment (the empty
\* literal included) and which is associated with a named struct type is
\* reported: when the segments before the first empty one walk to a struct
\* S, the diagnostic is "<segments up to the empty one> not found in <S>".
C11_EmptySegmentReported ==
    phase = "done" =>
        \A c \in DOMAIN resolved :
            LET ps == LiteralSegments(LinkOf(prog, c).arg[2])
                ty == resolved[c].type
            IN  IsStructType(PkgTypes, ty) =>
                    \A k \in 1..Len(ps) :
                        (/\ ps[k] = ""
                         /\ \A i \in 1..(k - 1) : ps[i] # ""
                         /\ Reached(PkgTypes, ty[2], Prefix(ps, k - 1), TRUE) # "")
                        =>
                        \E i \in DiagsAt(Pos(prog, c)) :
                            diags[i].msg =
                                "invalid preload: " \o Join(Prefix(ps, k), ".")
                                    \o " not found in "
                                    \o Reached(PkgTypes, ty[2], Prefix(ps, k - 1), TRUE)

\* the empty literal and a literal with an empty second segment, both
\* associated with Order and both reported
C11_Witness ==
    /\ phase = "done"
    /\ \E c1, c2 \in DOMAIN resolved :
          /\ LinkOf(prog, c1).arg[2] = LitEmpty
          /\ LinkOf(prog, c2).arg[2] = LitUserDotDotProfile
          /\ resolved[c1].type = Named("Order")
          /\ resolved[c2].type = Named("Order")
          /\ \E i \in DiagsAt(Pos(prog, c1)) :
                diags[i].msg = "invalid preload:  not found in Order"
          /\ \E i \in DiagsAt(Pos(prog, c2)) :
                diags[i].msg = "invalid preload: User. not found in User"

\* the literal Preload links of statement st
PreloadLinks(st) ==
    { j \in 1..Len(st.links) :
        st.links[j].meth = "Preload" /\ st.links[j].arg[1] = "BasicLit" }

\* C17: each Preload link whose literal path fails validation against the
\* model type associated with its chain yields exactly one diagnostic,
\* "invalid preload: " and the failure, at the chain's position, and a
\* link whose path validates yields none; nothing is deduplicated, so two
\* failing links of one chain yield two diagnostics.
C17_OneDiagnosticPerFailingLink ==
    phase = "done" =>
        \A k \in 1..Len(prog.stmts) :
            LET st == StmtAt(prog, k)
                types == { resolved[CallNode(k, j)].type : j \in PreloadLinks(st) }
                failing(T) ==
                    { j \in PreloadLinks(st) :
                        ~ValidFor(PkgTypes, T[2], LiteralSegments(st.links[j].arg[2])) }
            IN  \A T \in types :
                    IsStructType(PkgTypes, T) =>
                        /\ Cardinality(DiagsAt(StmtPos(prog, k)))
                              = Cardinality(failing(T))
                        /\ \A i \in DiagsAt(StmtPos(prog, k)) :
                              \E j \in failing(T) :
                                  diags[i].msg =
                                      "invalid preload: "
                                          \o checkPreloadPath(PkgTypes, T,
                                                 LiteralSegments(st.links[j].arg[2]))

----------------------------------------------------------------------------
(* Claims about the materialization call *)

\* the element type of a slice, the pointee of a pointer, the type itself
\* otherwise
ElementOrPointee(ty) ==
    IF ty[1] = "Slice" \/ ty[1] = "Pointer" THEN ty[2] ELSE ty

\* C12: the model type recorded for a Find call is the element type of its
\* destination variable when that is a collection and the pointee when it
\* is a pointer: a destination of type []M, *M or M records M.
C12_RecordsElementOrPointee ==
    \A c \in DOMAIN modelTypes :
        modelTypes[c] = ElementOrPointee(ObjectType(LinkOf(prog, c).arg[2]))

\* C13: every model type the first pass records is a named type whose
\* underlying type is a struct.
C13_ModelTypesAreStructs ==
    \A c \in DOMAIN modelTypes : IsStructType(PkgTypes, modelTypes[c])

\* the calls of the file
CallsOf(p) == { Calls(p, 1)[i] : i \in 1..Len(Calls(p, 1)) }

\* C14: Find, First and FirstOrCreate are all materialization calls: once
\* the first pass is over, each such call whose destination variable has a
\* type is recorded with a model type.
C14_MaterializationsRecorded ==
    phase # "first" =>
        \A c \in CallsOf(prog) :
            (/\ LinkOf(prog, c).meth \in {"Find", "First", "FirstOrCreate"}
             /\ LinkOf(prog, c).arg[1] \in {"Unary&", "Ident"}
             /\ ObjectType(LinkOf(prog, c).arg[2])[1] # "nil")
            => c \in DOMAIN modelTypes

\* call f stands behind call c in the source text
After(f, c) == f[2] > c[2] \/ (f[2] = c[2] /\ f[3] > c[3])

FuncOf(p, k) ==
    Cardinality({ i \in 1..k : StmtAt(p, i).recv[1] = "FuncDecl" })

\* C16: a Preload call is never associated with a Find call of another
\* function body.
C16_SameFunctionOnly ==
    \A c \in DOMAIN resolved :
        resolved[c].find[1] # "nil" =>
            FuncOf(prog, c[2]) = FuncOf(prog, resolved[c].find[2])

\* C18: every diagnostic reads "invalid preload: " and then
\* "<P> not found in <TypeName>", "<P> is not a struct" or
\* "<P> is not a named struct", <P> the first segments of the literal path
\* of a Preload call at its position joined by dots.
C18_DiagnosticShapes ==
    \A i \in 1..Len(diags) :
        \E c \in DOMAIN resolved :
            /\ Pos(prog, c) = diags[i].pos
            /\ \E k \in 1..Len(LiteralSegments(LinkOf(prog, c).arg[2])) :
                  LET P == Join(Prefix(LiteralSegments(LinkOf(prog, c).arg[2]), k), ".")
                  IN  \/ diags[i].msg = "invalid preload: " \o P \o " is not a struct"
                      \/ diags[i].msg =
                             "invalid preload: " \o P \o " is not a named struct"
                      \/ \E T \in DOMAIN PkgTypes :
                             diags[i].msg =
                                 "invalid preload: " \o P \o " not found in " \o T

----------------------------------------------------------------------------
(* Claims about the diagnostics *)

\* C19: as the README and the examples show it, a "not found" diagnostic
\* names the root model type, the type of the Find destination: "User.Profil
\* not found in Order" for orders []Order.
C19_NamesRootType ==
    \A i \in 1..Len(diags) :
        \E c \in DOMAIN resolved :
            /\ Pos(prog, c) = diags[i].pos
            /\ resolved[c].type[1] = "Named"
            /\ \E k \in 1..Len(LiteralSegments(LinkOf(prog, c).arg[2])) :
                  diags[i].msg =
                      "invalid preload: "
                          \o Join(Prefix(LiteralSegments(LinkOf(prog, c).arg[2]), k), ".")
                          \o " not found in " \o resolved[c].type[2]

\* the statement with the arguments behind the first removed from each call
FirstArgumentOnly(src) ==
    CHOOSE other \in DOMAIN Parse \cup DOMAIN ParseMore :
        /\ Tree(other).recv = Tree(src).recv
        /\ Tree(other).links =
              [j \in 1..Len(Tree(src).links) |->
                  Link(Tree(src).links[j].meth, Tree(src).links[j].arg)]

WithoutMore(p) ==
    [p EXCEPT !.stmts = [k \in 1..Len(p.stmts) |-> FirstArgumentOnly(p.stmts[k])]]

\* C20: a Preload call whose first argument is no string literal is never
\* reported; and the outcome for a literal Preload call is one the same
\* file gives with the arguments behind the first removed.
C20_OnlyFirstArgument ==
    phase = "done" =>
        /\ \A c \in CallsOf(prog) :
              (LinkOf(prog, c).meth = "Preload" /\ LinkOf(prog, c).arg[1] # "BasicLit")
                  => (c \notin DOMAIN resolved /\ DiagsAt(Pos(prog, c)) = {})
        /\ \A c \in DOMAIN resolved :
              resolved[c].find \in
                  findModelTypeForPreload(WithoutMore(prog), modelTypes, c)

----------------------------------------------------------------------------
(* Claims about the choice of the Find call *)

\* the distance from Preload call c to call f
Distance(p, c, f) == Pos(p, f) - Pos(p, c)

\* C25: when no recorded Find call has the receiver of the Preload call,
\* the Preload call is associated with the recorded Find call at the
\* smallest positive distance after it if that distance is below 20, and
\* stays unassociated otherwise; a Find call 20 or more away with another
\* receiver, or 1000 or more away with the same receiver, is never used.
C25_NearestFollowingFallback ==
    phase = "done" =>
        \A c \in DOMAIN resolved :
            LET sameRecv == { f \in DOMAIN modelTypes :
                                Receiver(prog, f) = Receiver(prog, c) }
                near == { f \in DOMAIN modelTypes :
                            Distance(prog, c, f) > 0 /\ Distance(prog, c, f) < 20 }
                found == resolved[c].find
            IN  /\ sameRecv = {} =>
                      IF near = {} THEN found = Nil
                      ELSE /\ found \in near
                           /\ \A g \in near :
                                 Distance(prog, c, found) <= Distance(prog, c, g)
                /\ found # Nil =>
                      IF found \in sameRecv THEN Distance(prog, c, found) < 1000
                      ELSE Distance(prog, c, found) < 20

\* the model type of Find call f, Nil for no call
TypeOfFind(f) == IF f = Nil THEN Nil ELSE modelTypes[f]

\* C28: the model type associated with a Preload call does not depend on
\* the order in which the modelTypes map is ranged over: whatever the
\* order, findModelTypeForPreload returns one and the same type.
C28_AssociationDeterministic ==
    phase \in {"second", "done"} =>
        \A c \in CallsOf(prog) :
            (LinkOf(prog, c).meth = "Preload" /\ LinkOf(prog, c).arg[1] = "BasicLit")
            => Cardinality({ TypeOfFind(f) :
                   f \in findModelTypeForPreload(prog, modelTypes, c) }) = 1

\* C29: the path run validates is the string value of the literal, for an
\* interpreted and for a raw literal alike: a Preload call with a model
\* type is reported exactly when the segments the literal spells fail
\* against that type, and with that failure.
C29_LiteralValueValidated ==
    phase = "done" =>
        \A c \in DOMAIN resolved :
            resolved[c].type # Nil =>
                LET failure == checkPreloadPath(PkgTypes, resolved[c].type,
                                   LiteralSegments(LinkOf(prog, c).arg[2]))
                IN  IF failure = "" THEN DiagsAt(Pos(prog, c)) = {}
                    ELSE \E i \in DiagsAt(Pos(prog, c)) :
                            diags[i].msg = "invalid preload: " \o failure

----------------------------------------------------------------------------
(* Claims about the loop of checkPreloadPath *)

\* the walk along ps from struct sname comes to one struct twice
Revisits(env, sname, ps) ==
    \E i, j \in 0..(Len(ps) - 1) :
        /\ i < j
        /\ Reached(env, sname, Prefix(ps, i), TRUE) # ""
        /\ Reached(env, sname, Prefix(ps, i), TRUE)
              = Reached(env, sname, Prefix(ps, j), TRUE)

\* C24: checkPreloadPath returns for every type graph, cyclic ones
\* included, after examining at most len(path) segments, and a path that
\* follows existing fields around a cycle validates.
C24_TerminatesWithinPath ==
    /\ <>(vpc = "done")
    /\ [](wi <= Len(parts))
    /\ []((vpc = "done" /\ ValidFor(decl, t[2], parts) /\ Revisits(decl, t[2], parts))
            => err = "")

\* a path of full length around a cycle of two structs, validated after
\* one scan per segment
C24_Witness ==
    /\ vpc = "done"
    /\ Len(parts) = MaxPathLen
    /\ Revisits(decl, t[2], parts)
    /\ Reached(decl, t[2], Prefix(parts, 1), TRUE) # t[2]
    /\ wi = Len(parts)
    /\ err = ""

----------------------------------------------------------------------------
(* The command-line tool: strings                                          *)
(*                                                                         *)
(* A source line or a file path is a sequence of tokens: each punctuation  *)
(* character and each blank is a token of its own, and a word is a token   *)
(* free of them.  No word of the modelled lines ends in "db" or begins     *)
(* with "Preload" other than these two words themselves, so a match of     *)
(* tokens is a match of substrings.  A Go string result is the             *)
(* concatenation of its tokens.                                            *)

\* strings.Index(s, substr), counted in tokens from 1; 0 stands for -1
IndexOf(s, substr) ==
    LET at == { i \in 1..(Len(s) - Len(substr) + 1) :
                  SubSeq(s, i, i + Len(substr) - 1) = substr }
    IN  IF at = {} THEN 0 ELSE CHOOSE i \in at : \A j \in at : i <= j

\* strings.LastIndex(s, substr)
LastIndexOf(s, substr) ==
    LET at == { i \in 1..(Len(s) - Len(substr) + 1) :
                  SubSeq(s, i, i + Len(substr) - 1) = substr }
    IN  IF at = {} THEN 0 ELSE CHOOSE i \in at : \A j \in at : i >= j

\* strings.Contains(s, substr)
Contains(s, substr) == IndexOf(s, substr) # 0

\* strings.TrimSpace(s)
TrimSpace(s) == Trim(s, " ")

\* strings.Fields(s): the maximal runs of non-blank characters, each run
\* as its tokens; cur is the run being collected
RECURSIVE FieldsFrom(_, _)
FieldsFrom(s, cur) ==
    IF Len(s) = 0 THEN IF cur = <<>> THEN <<>> ELSE <<cur>>
    ELSE IF s[1] = " "
    THEN (IF cur = <<>> THEN <<>> ELSE <<cur>>) \o FieldsFrom(Tail(s), <<>>)
    ELSE FieldsFrom(Tail(s), Append(cur, s[1]))

Fields(s) == FieldsFrom(s, <<>>)

\* strings.ReplaceAll(s, old, new): one pass from the left over the
\* occurrences of old that do not overlap
RECURSIVE ReplaceAll(_, _, _)
ReplaceAll(s, old, new) ==
    IF Len(s) < Len(old) THEN s
    ELSE IF SubSeq(s, 1, Len(old)) = old
    THEN new \o ReplaceAll(SubSeq(s, Len(old) + 1, Len(s)), old, new)
    ELSE <<s[1]>> \o ReplaceAll(Tail(s), old, new)

\* the Go string of a token sequence
Text(s) == Join(s, "")

----------------------------------------------------------------------------
(* analyzer.extractVariableFromPreloadCall *)

\* one "if assignIndex := strings.Index(lineContent, sign); ..." block:
\* the tokens of the value it returns, none when it falls through
VariableBefore(lineContent, sign) ==
    LET assignIndex == IndexOf(lineContent, sign)
        beforeAssign == TrimSpace(SubSeq(lineContent, 1, assignIndex - 1))
        fields == Fields(beforeAssign)
    IN  IF /\ assignIndex # 0
           /\ \/ Contains(beforeAssign, <<"db", ".", "Preload">>)
              \/ Contains(beforeAssign, <<".", "Preload">>)
           /\ Len(fields) > 0
        THEN fields[Len(fields)]
        ELSE <<>>

\* the tokens of the returned string
extractVariableFromPreloadCall(lineContent) ==
    LET short == VariableBefore(lineContent, <<":", "=">>)
    IN  IF short # <<>> THEN short
        ELSE VariableBefore(lineContent, <<"=">>)

\* lines with a Preload call: assigned with :=, with =, declared with var,
\* or not assigned; the call on db, tx or s.db; followed by nothing, by a
\* Find or by a Where whose condition holds an equals sign
AssignedNames == {"orderDB", "userDB"}

LeftSides ==
    { <<>> }
    \cup { <<x, " ", ":", "=", " ">> : x \in AssignedNames }
    \cup { <<x, " ", "=", " ">> : x \in AssignedNames }
    \cup { <<"var", " ", x, " ", "=", " ">> : x \in AssignedNames }

Receivers == { <<"db">>, <<"tx">>, <<"s", ".", "db">> }

Relations == {"User", "Profile"}

ChainTails ==
    { <<>>,
      <<".", "Find", "(", "&", "orders", ")">>,
      <<".", "Where", "(", "\"", "id", " ", "=", " ", "?", "\"", ",", " ",
        "id", ")">> }

PreloadLines ==
    { lhs \o recv \o <<".", "Preload", "(", "\"", rel, "\"", ")">> \o tail :
        lhs \in LeftSides, recv \in Receivers, rel \in Relations,
        tail \in ChainTails }

ExtractInit ==
    /\ fn = "extractVariableFromPreloadCall"
    /\ input \in PreloadLines
    /\ output = ""
    /\ tpc = "ready"
    /\ PathIdle
    /\ RunIdle

\* one call extractVariableFromPreloadCall(lineContent)
ExtractVariable ==
    /\ fn = "extractVariableFromPreloadCall"
    /\ tpc = "ready"
    /\ output' = Text(extractVariableFromPreloadCall(input))
    /\ tpc' = "done"
    /\ UNCHANGED <<fn, input>>
    /\ UNCHANGED pathVars
    /\ UNCHANGED runVars

ExtractNext == ExtractVariable

ExtractSpec == ExtractInit /\ [][ExtractNext]_vars

----------------------------------------------------------------------------
(* Claims about extractVariableFromPreloadCall *)

\* the position of the first equals sign outside a string literal, 0 when
\* the line has none
AssignmentAt(line) ==
    LET at == { k \in 1..Len(line) :
                  /\ line[k] = "="
                  /\ Cardinality({ j \in 1..(k - 1) : line[j] = "\"" }) % 2 = 0 }
    IN  IF at = {} THEN 0 ELSE CHOOSE k \in at : \A j \in at : k <= j

\* the identifier an assignment of the line assigns to, "" when the line
\* does not assign
LeftHandSide(line) ==
    LET k == AssignmentAt(line)
        words == SelectSeq(SubSeq(line, 1, k - 1),
                           LAMBDA w : w # " " /\ w # ":")
    IN  IF k = 0 \/ Len(words) = 0 THEN "" ELSE words[Len(words)]

\* C26: extractVariableFromPreloadCall returns the identifier on the
\* left-hand side for a line "x := e.Preload(...)", "x = e.Preload(...)" or
\* "var x = e.Preload(...)", and "" for a line without an assignment.
C26_ReturnsAssignedVariable ==
    (fn = "extractVariableFromPreloadCall" /\ tpc = "done")
        => output = LeftHandSide(input)

----------------------------------------------------------------------------
(* service.getParentDir: the definition that scans for the last slash and  *)
(* the definition that calls filepath.Dir                                  *)

\* the components filepath.Clean keeps, out those kept so far: an empty
\* component and "." are dropped, ".." takes back the component before it,
\* is dropped at the root and kept at the start of a relative path
RECURSIVE CleanComponents(_, _, _)
CleanComponents(comps, rooted, out) ==
    IF Len(comps) = 0 THEN out
    ELSE LET c == Head(comps)
         IN  CleanComponents(Tail(comps), rooted,
                IF c = "" \/ c = "." THEN out
                ELSE IF c = ".."
                THEN IF Len(out) > 0 /\ out[Len(out)] # ".."
                     THEN SubSeq(out, 1, Len(out) - 1)
                     ELSE IF rooted THEN out ELSE Append(out, "..")
                ELSE Append(out, c))

\* the components of filepath.Clean(path)
Cleaned(path) ==
    LET rooted == Len(path) > 0 /\ path[1] = "/"
    IN  [rooted |-> rooted,
         kept |-> CleanComponents(SplitFrom(path, "/", ""), rooted, <<>>)]

\* filepath.Clean(path)
Clean(path) ==
    LET c == Cleaned(path)
    IN  IF c.rooted THEN "/" \o Join(c.kept, "/")
        ELSE IF Len(c.kept) = 0 THEN "."
        ELSE Join(c.kept, "/")

\* filepath.Dir(path): the path up to its last slash, cleaned
Dir(path) == Clean(SubSeq(path, 1, LastIndexOf(path, <<"/">>)))

\* getParentDir, by the scan: lastSlash > 0 in bytes from 0 is a slash
\* behind the first token
getParentDirScan(filePath) ==
    LET lastSlash == LastIndexOf(filePath, <<"/">>)
    IN  IF lastSlash > 1 THEN Text(SubSeq(filePath, 1, lastSlash - 1))
        ELSE "."

\* getParentDir, by filepath.Dir
getParentDirFilepath(filePath) ==
    LET parent == Dir(filePath)
    IN  IF parent = "." THEN "." ELSE parent

\* most tokens of a path before its file name
MaxDirLen == 5

\* file paths: a file name behind any run of slashes, names and dots
FilePaths ==
    { dir \o <<"file.go">> :
        dir \in UNION { [1..n -> {"/", "a", "."}] : n \in 0..MaxDirLen } }

DirInit ==
    /\ fn = "getParentDir"
    /\ input \in FilePaths
    /\ output = <<>>
    /\ tpc = "ready"
    /\ PathIdle
    /\ RunIdle

\* one call of the scanning definition
ParentDirByScan ==
    /\ fn = "getParentDir"
    /\ "scan" \notin DOMAIN output
    /\ output' = ("scan" :> getParentDirScan(input)) @@ output
    /\ tpc' = IF "filepath" \in DOMAIN output THEN "done" ELSE "ready"
    /\ UNCHANGED <<fn, input>>
    /\ UNCHANGED pathVars
    /\ UNCHANGED runVars

\* one call of the filepath.Dir definition
ParentDirByFilepath ==
    /\ fn = "getParentDir"
    /\ "filepath" \notin DOMAIN output
    /\ output' = ("filepath" :> getParentDirFilepath(input)) @@ output
    /\ tpc' = IF "scan" \in DOMAIN output THEN "done" ELSE "ready"
    /\ UNCHANGED <<fn, input>>
    /\ UNCHANGED pathVars
    /\ UNCHANGED runVars

DirNext == ParentDirByScan \/ ParentDirByFilepath

DirSpec == DirInit /\ [][DirNext]_vars

----------------------------------------------------------------------------
(* Claims about getParentDir *)

\* the directory part of a path: what stands before its last slash, "/"
\* for a file under the root, "." for a bare file name
DirectoryPart(p) ==
    LET lastSlash == LastIndexOf(p, <<"/">>)
    IN  IF lastSlash = 0 THEN "."
        ELSE IF lastSlash = 1 THEN "/"
        ELSE Text(SubSeq(p, 1, lastSlash - 1))

\* C27: both definitions of getParentDir return the directory part of
\* every slash-separated file path ("/" for "/file.go", "." for a bare file
\* name) and so agree on every input.
C27_ParentDirAgree ==
    (fn = "getParentDir" /\ tpc = "done")
        => /\ output["scan"] = DirectoryPart(input)
           /\ output["filepath"] = DirectoryPart(input)
           /\ output["scan"] = output["filepath"]

----------------------------------------------------------------------------
(* validator.ValidatePreloadRelations                                      *)
(*                                                                         *)
(* A models.PreloadResult is a record of its fields, Relation and Model    *)
(* token sequences; a models.StructInfo is [Name, Fields], Fields a        *)
(* function from field name to type text; allStructs is a function from    *)
(* key to StructInfo.                                                      *)

extractBaseModelName(modelName) ==
    LET lastDot == LastIndexOf(modelName, <<".">>)
    IN  IF lastDot # 0
        THEN Text(SubSeq(modelName, lastDot + 1, Len(modelName)))
        ELSE Text(modelName)

\* a lookup of the whole relation text among the fields
validateRelationInStructWholeRelation(relation, structInfo) ==
    Text(relation) \in DOMAIN structInfo.Fields

validateRelationInStruct(relation, structInfo) ==
    LET pieces == Split(relation, ".")
    IN  IF Len(pieces) = 1
        THEN pieces[1] \in DOMAIN structInfo.Fields
        ELSE IF pieces[1] \notin DOMAIN structInfo.Fields THEN FALSE
        ELSE TRUE

\* the slice after the loop has assigned results[i].Status for every i
ValidatePreloadRelations(results, allStructs) ==
    LET structMap == [name \in DOMAIN allStructs |-> allStructs[name]]
    IN  [i \in DOMAIN results |->
            LET baseModel == extractBaseModelName(results[i].Model)
            IN  [results[i] EXCEPT !.Status =
                    IF baseModel \in DOMAIN structMap
                    THEN IF validateRelationInStruct(results[i].Relation,
                                                     structMap[baseModel])
                         THEN "correct"
                         ELSE "error"
                    ELSE "unknown"]]

\* most results handed to the validator
MaxResults == 2

OrderInfo ==
    [Name |-> "Order", Fields |-> [ID |-> "int64", User |-> "User"]]

\* struct maps keyed by bare name, by qualified name, by both or empty
StructMaps ==
    { [name \in keys |-> OrderInfo] :
        keys \in SUBSET {"Order", "databases.Order"} }

RelationTexts ==
    { <<"User">>, <<"User", ".", "Nope">>, <<"Nope", ".", "User">>, <<>> }

ModelTexts ==
    { <<"Order">>, <<"databases", ".", "Order">>, <<"Invoice">> }

\* the i-th result of a slice, on line 10 * i of test.go
ResultsAt(i) ==
    { [File |-> "test.go", Line |-> 10 * i, Relation |-> r, Model |-> m,
       Variable |-> "", FindLine |-> 0, Status |-> st] :
        r \in RelationTexts, m \in ModelTexts, st \in {"correct", "error"} }

RECURSIVE ResultSlices(_)
ResultSlices(n) ==
    IF n = 0 THEN { <<>> }
    ELSE { Append(rs, r) : rs \in ResultSlices(n - 1), r \in ResultsAt(n) }

ValidatorInit ==
    /\ fn = "ValidatePreloadRelations"
    /\ input \in { [results |-> rs, allStructs |-> sm] :
                     rs \in UNION { ResultSlices(n) : n \in 0..MaxResults },
                     sm \in StructMaps }
    /\ output = <<>>
    /\ tpc = "ready"
    /\ PathIdle
    /\ RunIdle

\* one call ValidatePreloadRelations(results, allStructs): the statuses are
\* assigned in the caller's slice, which is also what the call returns
ValidateRelations ==
    /\ fn = "ValidatePreloadRelations"
    /\ tpc = "ready"
    /\ output' = ValidatePreloadRelations(input.results, input.allStructs)
    /\ input' = [input EXCEPT !.results = output']
    /\ tpc' = "done"
    /\ UNCHANGED fn
    /\ UNCHANGED pathVars
    /\ UNCHANGED runVars

ValidatorNext == ValidateRelations

ValidatorSpec == ValidatorInit /\ [][ValidatorNext]_vars

----------------------------------------------------------------------------
(* Claims about ValidatePreloadRelations *)

\* the text of s behind its last dot, all of s when it has no dot
AfterLastDot(s) ==
    LET pieces == Split(s, ".") IN pieces[Len(pieces)]

\* the text of s before its first dot, all of s when it has no dot
FirstSegment(s) == Split(s, ".")[1]

\* the status the classification rule gives a result
StatusByRule(r, allStructs) ==
    LET B == AfterLastDot(r.Model)
    IN  IF B \notin DOMAIN allStructs THEN "unknown"
        ELSE IF FirstSegment(r.Relation) \in DOMAIN allStructs[B].Fields
        THEN "correct"
        ELSE "error"

\* C21: ValidatePreloadRelations gives every result the status of the rule
\* (unknown iff no struct is keyed by the model's text behind its last dot,
\* else correct iff the relation's first segment is a field, else error),
\* whatever status came in, and returns the results in the same number and
\* order with every other field unchanged.
C21_ClassifiesByRule ==
    [][(fn = "ValidatePreloadRelations" /\ tpc = "ready" /\ tpc' = "done")
        => /\ Len(output') = Len(input.results)
           /\ \A i \in DOMAIN input.results :
                output'[i] = [input.results[i] EXCEPT
                    !.Status = StatusByRule(input.results[i], input.allStructs)]
      ]_vars

\* a returned slice with an unknown model behind a correct nested relation
C21_Witness ==
    /\ fn = "ValidatePreloadRelations"
    /\ tpc = "done"
    /\ Len(output) = MaxResults
    /\ output[1].Relation = <<"User", ".", "Nope">>
    /\ output[1].Model = <<"databases", ".", "Order">>
    /\ output[1].Status = "correct"
    /\ output[Len(output)].Model = <<"Invoice">>
    /\ output[Len(output)].Status = "unknown"

----------------------------------------------------------------------------
(* parser.FindAllStructs, and its map handed to the validator *)

\* filepath.Base(filepath.Dir(filePath)): the last component of the
\* cleaned directory, "/" for the root and "." for the current directory
getUniqueStructName(structName, filePath) ==
    LET dir == Cleaned(SubSeq(filePath, 1, LastIndexOf(filePath, <<"/">>)))
        packageName == IF Len(dir.kept) > 0 THEN dir.kept[Len(dir.kept)]
                       ELSE IF dir.rooted THEN "/"
                       ELSE "."
    IN  packageName \o "." \o structName

\* the map after the loop over goFiles[k..], structs the map before it; a
\* file is [path, structs], structs what ParseStructsFromFile returns
RECURSIVE FindAllStructsFrom(_, _, _)
FindAllStructsFrom(goFiles, k, structs) ==
    IF k > Len(goFiles) THEN structs
    ELSE LET file == goFiles[k]
             named == [key \in { getUniqueStructName(name, file.path) :
                                   name \in DOMAIN file.structs } |->
                         file.structs[CHOOSE name \in DOMAIN file.structs :
                            getUniqueStructName(name, file.path) = key]]
         IN  FindAllStructsFrom(goFiles, k + 1, named @@ structs)

FindAllStructs(goFiles) == FindAllStructsFrom(goFiles, 1, <<>>)

\* files that declare struct Order, in a rooted package directory, in a
\* relative one and in the current directory
SourcePaths ==
    { <<"/", "src", "/", "databases", "/", "payment.go">>,
      <<"models", "/", "order.go">>,
      <<"order.go">> }

SourceFiles ==
    { [path |-> p, structs |-> [Order |-> OrderInfo]] : p \in SourcePaths }

\* directories of one or two files, in the order filepath.Walk visits them
Directories ==
    { <<f>> : f \in SourceFiles }
    \cup { d \in SourceFiles \X SourceFiles : d[1] # d[2] }

PipelineInit ==
    /\ fn = "FindAllStructs"
    /\ input \in { [dir |-> d, results |-> rs] :
                     d \in Directories,
                     rs \in ResultSlices(0) \cup ResultSlices(1) }
    /\ output = <<>>
    /\ tpc = "ready"
    /\ PathIdle
    /\ RunIdle

\* one call FindAllStructs(dir), its map passed on to the validator
\* together with the results
FindStructs ==
    /\ fn = "FindAllStructs"
    /\ tpc = "ready"
    /\ output' = FindAllStructs(input.dir)
    /\ fn' = "ValidatePreloadRelations"
    /\ input' = [results |-> input.results, allStructs |-> output']
    /\ tpc' = "ready"
    /\ UNCHANGED pathVars
    /\ UNCHANGED runVars

PipelineNext == FindStructs \/ ValidateRelations

PipelineSpec == PipelineInit /\ [][PipelineNext]_vars

----------------------------------------------------------------------------
(* Claims about the struct map of FindAllStructs *)

\* C30: the key under which FindAllStructs stores a struct S is the key
\* ValidatePreloadRelations looks up for a result whose Model is S, bare or
\* package-qualified, so such a result is never left "unknown".
C30_KeysUsableByValidator ==
    (fn = "ValidatePreloadRelations" /\ tpc = "done")
        => \A i \in DOMAIN output :
              (\E key \in DOMAIN input.allStructs :
                  input.allStructs[key].Name = AfterLastDot(output[i].Model))
                  => output[i].Status # "unknown"

----------------------------------------------------------------------------
(* analyzer.AnalyzePreloads                                                *)
(*                                                                         *)
(* A variable name is a sequence of tokens as well, split before a final   *)
(* "s" and before "List" and "Item" ("orders" is <<"order", "s">>); no     *)
(* other token ends in "s".  The findCall string of findVariableAndFindCall*)
(* is <<"line", n>> for "line n", <<"closest call">> or <<>> for "".       *)

MaterializingMethods == {"Find", "First", "FirstOrCreate"}

\* the call pattern ".Method("
MethodCall(method) == <<".", method, "(">>

\* the tokens of the returned name, none for ""
extractVariableNameFromFindCall(lineContent) ==
    LET method ==
            IF Contains(lineContent, MethodCall("Find")) THEN MethodCall("Find")
            ELSE IF Contains(lineContent, MethodCall("First"))
            THEN MethodCall("First")
            ELSE IF Contains(lineContent, MethodCall("FirstOrCreate"))
            THEN MethodCall("FirstOrCreate")
            ELSE <<>>
        methodIndex == IndexOf(lineContent, method)
        amps == { i \in methodIndex..Len(lineContent) : lineContent[i] = "&" }
        ampIndex == CHOOSE i \in amps : \A j \in amps : i <= j
        stops == { i \in (ampIndex + 1)..Len(lineContent) :
                     lineContent[i] \in {")", " ", ","} }
        endIndex == IF stops = {} THEN Len(lineContent) + 1
                    ELSE CHOOSE i \in stops : \A j \in stops : i <= j
    IN  IF method = <<>> \/ amps = {} THEN <<>>
        ELSE SubSeq(lineContent, ampIndex + 1, endIndex - 1)

abs(x) == IF x < 0 THEN 0 - x ELSE x

\* the loop of findClosestModelForPreload over gormCalls[k..]: best is
\* <<minDistance, index of closestCall>>, index 0 before any call is taken
RECURSIVE ClosestGormCall(_, _, _, _)
ClosestGormCall(preloadCall, gormCalls, k, best) ==
    IF k > Len(gormCalls) THEN best
    ELSE LET call == gormCalls[k]
             distance == abs(call.Line - preloadCall.Line)
         IN  ClosestGormCall(preloadCall, gormCalls, k + 1,
                IF /\ call.Scope = preloadCall.Scope
                   /\ call.File = preloadCall.File
                   /\ call.Method \in MaterializingMethods
                   /\ distance < best[1]
                THEN <<distance, k>> ELSE best)

NoDistance == 999999

findClosestModelForPreload(preloadCall, gormCalls) ==
    LET best == ClosestGormCall(preloadCall, gormCalls, 1, <<NoDistance, 0>>)
    IN  IF best[1] < NoDistance
        THEN extractVariableNameFromFindCall(gormCalls[best[2]].LineContent)
        ELSE <<>>

\* the first Find/First/FirstOrCreate call of the preload's scope and file
\* whose line contains the assigned variable, 0 when there is none
FirstCallUsing(preloadCall, gormCalls, assignedVar) ==
    LET using == { k \in 1..Len(gormCalls) :
                     /\ gormCalls[k].Scope = preloadCall.Scope
                     /\ gormCalls[k].File = preloadCall.File
                     /\ gormCalls[k].Method \in MaterializingMethods
                     /\ Contains(gormCalls[k].LineContent, assignedVar) }
    IN  IF using = {} THEN 0 ELSE CHOOSE k \in using : \A j \in using : k <= j

\* the rest of findVariableAndFindCall behind the check of the line itself
VariableByAssignmentOrDistance(preloadCall, gormCalls) ==
    LET assignedVar == extractVariableFromPreloadCall(preloadCall.LineContent)
        using == FirstCallUsing(preloadCall, gormCalls, assignedVar)
        closestCall == findClosestModelForPreload(preloadCall, gormCalls)
    IN  IF assignedVar # <<>> /\ using # 0
        THEN [varName |-> assignedVar,
              findCall |-> <<"line", gormCalls[using].Line>>]
        ELSE IF closestCall # <<>>
        THEN [varName |-> closestCall, findCall |-> <<"closest call">>]
        ELSE [varName |-> <<>>, findCall |-> <<>>]

\* findVariableAndFindCall without the check of the line itself
findVariableAndFindCallSkippingLine(preloadCall, gormCalls) ==
    VariableByAssignmentOrDistance(preloadCall, gormCalls)

findVariableAndFindCall(preloadCall, gormCalls) ==
    LET normalizedContent ==
            ReplaceAll(ReplaceAll(preloadCall.LineContent, <<" ", ".">>, <<".">>),
                       <<".", " ">>, <<".">>)
        varName == extractVariableNameFromFindCall(normalizedContent)
    IN  IF /\ \E method \in MaterializingMethods :
                 Contains(normalizedContent, MethodCall(method))
           /\ varName # <<>>
        THEN [varName |-> varName, findCall |-> <<"line", preloadCall.Line>>]
        ELSE VariableByAssignmentOrDistance(preloadCall, gormCalls)

\* strings.ToUpper of the first letter of a name's first token
Capitalized(word) ==
    CASE word = "order" -> "Order"
      [] word = "user" -> "User"
      [] word = "s" -> "S"
      [] OTHER -> word

inferModelFromVariableName(varName) ==
    LET last(n) == n[Len(n)]
        front(n, k) == SubSeq(n, 1, Len(n) - k)
        noS == IF Len(varName) > 1 /\ last(varName) = "s"
               THEN front(varName, 1) ELSE varName
        noList == IF Len(noS) > 0 /\ last(noS) = "List"
                  THEN front(noS, 1) ELSE noS
        name == IF Len(noList) > 1 /\ last(noList) = "s"
                   /\ noList[Len(noList) - 1] = "Item"
                THEN front(noList, 2) ELSE noList
    IN  IF Len(name) > 0 THEN Capitalized(name[1]) \o Text(Tail(name))
        ELSE ""

\* the key of typeMap
TypeKey(file, scope, varName) == file \o ":" \o scope \o ":" \o varName

\* typeMap after the loop over variableTypes: a later entry replaces an
\* earlier one of the same key
TypeMap(variableTypes) ==
    LET keyOf(k) == TypeKey(variableTypes[k].File, variableTypes[k].Scope,
                            Text(variableTypes[k].VarName))
    IN  [key \in { keyOf(k) : k \in 1..Len(variableTypes) } |->
            variableTypes[CHOOSE k \in 1..Len(variableTypes) :
                /\ keyOf(k) = key
                /\ \A j \in 1..Len(variableTypes) : keyOf(j) = key => j <= k]]

\* a loop body that sets the status by the relation
AnalyzeCallByRelation(call, gormCalls, typeMap) ==
    LET found == findVariableAndFindCall(call, gormCalls)
    IN  [File |-> call.File, Line |-> call.Line, Relation |-> call.Relation,
         Model |-> call.Relation,
         Variable |-> Text(found.varName),
         FindLine |-> 0,
         Status |-> IF call.Relation = "User" THEN "correct" ELSE "error"]

\* the body of the loop over preloadCalls: the result appended for call
AnalyzeCall(call, gormCalls, typeMap) ==
    LET found == findVariableAndFindCall(call, gormCalls)
        varName == found.varName
        key == TypeKey(call.File, call.Scope, Text(varName))
        inferred == inferModelFromVariableName(varName)
        model == IF varName # <<>>
                 THEN IF key \in DOMAIN typeMap THEN typeMap[key].ModelName
                      ELSE inferred
                 ELSE "Unknown"
        status == IF varName # <<>>
                  THEN IF key \in DOMAIN typeMap THEN "correct"
                       ELSE IF inferred # "" THEN "correct" ELSE "unknown"
                  ELSE "unknown"
        findLine == IF found.findCall # <<>> /\ found.findCall[1] = "line"
                    THEN found.findCall[2] ELSE 0
    IN  [File |-> call.File, Line |-> call.Line, Relation |-> call.Relation,
         Model |-> model,
         Variable |-> IF varName # <<>> THEN Text(varName) ELSE "",
         FindLine |-> IF findLine > 0 THEN findLine ELSE 0,
         Status |-> status]

AnalyzePreloads(preloadCalls, gormCalls, varAssignments, variableTypes) ==
    LET typeMap == TypeMap(variableTypes)
    IN  [i \in DOMAIN preloadCalls |->
            AnalyzeCall(preloadCalls[i], gormCalls, typeMap)]

\* most preload calls handed to AnalyzePreloads
MaxCalls == 2

PreloadUser == <<"db", ".", "Preload", "(", "\"", "User", "\"", ")">>

\* the line of a preload call: a chain with Find, a chain continued with a
\* blank before ".First", a chain with FirstOrCreate and a second argument,
\* a lone Preload, and a Preload assigned to a variable
CallLines ==
    { PreloadUser \o <<".", "Find", "(", "&", "order", "s", ")">>,
      PreloadUser \o <<" ", ".", "First", "(", "&", "user", ")">>,
      PreloadUser \o <<".", "FirstOrCreate", "(", "&", "List", ",", " ", "1", ")">>,
      PreloadUser,
      <<"orderDB", " ", ":", "=", " ">> \o PreloadUser }

RelationNames == {"User", "Nope"}

\* the i-th preload call, on line 10 * i of function f in a.go
PreloadCallsAt(i) ==
    { [File |-> "a.go", Line |-> 10 * i, Relation |-> r, Model |-> "",
       LineContent |-> l, PreloadStr |-> r, Scope |-> "f"] :
        r \in RelationNames, l \in CallLines }

RECURSIVE PreloadCallSlices(_)
PreloadCallSlices(n) ==
    IF n = 0 THEN { <<>> }
    ELSE { Append(cs, c) : cs \in PreloadCallSlices(n - 1),
                           c \in PreloadCallsAt(n) }

GormCall(line, method, content, scope) ==
    [File |-> "a.go", Line |-> line, Method |-> method,
     LineContent |-> content, Scope |-> scope]

FindOrders == <<"db", ".", "Find", "(", "&", "order", "s", ")">>

FirstUser == <<"db", ".", "First", "(", "&", "user", ")">>

GormCallSlices ==
    { <<>>,
      <<GormCall(25, "Find", FindOrders, "f")>>,
      <<GormCall(25, "Find", FindOrders, "g")>>,
      <<GormCall(12, "Find",
                 <<"orderDB", ".", "Find", "(", "&", "order", "s", ")">>, "f")>>,
      <<GormCall(1, "First", FirstUser, "f"),
        GormCall(25, "Find", FindOrders, "f")>> }

VariableType(varName, modelName, scope) ==
    [VarName |-> varName, TypeName |-> "[]databases." \o modelName,
     PackageName |-> "databases", ModelName |-> modelName, Scope |-> scope,
     File |-> "a.go", Line |-> 3]

VariableTypeSlices ==
    { <<>>,
      <<VariableType(<<"order", "s">>, "Invoice", "f")>>,
      <<VariableType(<<"order", "s">>, "Invoice", "g")>>,
      <<VariableType(<<"order", "s">>, "Order", "f"),
        VariableType(<<"user">>, "Account", "f")>> }

AnalyzeInit ==
    /\ fn = "AnalyzePreloads"
    /\ input \in { [preloadCalls |-> cs, gormCalls |-> gs,
                    varAssignments |-> <<>>, variableTypes |-> vs] :
                     cs \in UNION { PreloadCallSlices(n) : n \in 0..MaxCalls },
                     gs \in GormCallSlices,
                     vs \in VariableTypeSlices }
    /\ output = <<>>
    /\ tpc = "ready"
    /\ PathIdle
    /\ RunIdle

\* one call AnalyzePreloads(preloadCalls, gormCalls, varAssignments,
\* variableTypes)
Analyze ==
    /\ fn = "AnalyzePreloads"
    /\ tpc = "ready"
    /\ output' = AnalyzePreloads(input.preloadCalls, input.gormCalls,
                                 input.varAssignments, input.variableTypes)
    /\ tpc' = "done"
    /\ UNCHANGED <<fn, input>>
    /\ UNCHANGED pathVars
    /\ UNCHANGED runVars

AnalyzeNext == Analyze

AnalyzeSpec == AnalyzeInit /\ [][AnalyzeNext]_vars

----------------------------------------------------------------------------
(* Claims about AnalyzePreloads *)

\* the positions of line at which the argument &v of a Find, First or
\* FirstOrCreate call begins
DestinationsAt(line) ==
    { i \in 4..Len(line) :
        /\ line[i] = "&"
        /\ line[i - 1] = "("
        /\ line[i - 2] \in MaterializingMethods
        /\ line[i - 3] = "." }

\* the name v behind the ampersand at position i
NameBehind(line, i) ==
    LET ends == { j \in (i + 1)..Len(line) : line[j] \in {")", ","} }
    IN  SubSeq(line, i + 1, (CHOOSE j \in ends : \A k \in ends : j <= k) - 1)

\* the entries of variableTypes for variable v of the call's file and scope
EntriesFor(call, v, variableTypes) ==
    { k \in 1..Len(variableTypes) :
        /\ variableTypes[k].File = call.File
        /\ variableTypes[k].Scope = call.Scope
        /\ variableTypes[k].VarName = v }

\* C22: AnalyzePreloads returns one result per preload call, in order,
\* with File, Line and Relation of the call; and for a call whose line
\* holds a Find, First or FirstOrCreate call with argument &v the result
\* has Variable v, FindLine the call's Line and, when variableTypes has an
\* entry for v in the call's file and scope, that entry's ModelName.
C22_OneResultPerCall ==
    (fn = "AnalyzePreloads" /\ tpc = "done")
        => /\ Len(output) = Len(input.preloadCalls)
           /\ \A i \in DOMAIN input.preloadCalls :
                LET call == input.preloadCalls[i]
                IN  /\ output[i].File = call.File
                    /\ output[i].Line = call.Line
                    /\ output[i].Relation = call.Relation
                    /\ \A at \in DestinationsAt(call.LineContent) :
                         LET v == NameBehind(call.LineContent, at)
                             entries == EntriesFor(call, v, input.variableTypes)
                         IN  /\ output[i].Variable = Text(v)
                             /\ output[i].FindLine = call.Line
                             /\ entries # {}
                                  => \E k \in entries :
                                       output[i].Model
                                         = input.variableTypes[k].ModelName

\* a chain continued with a blank before ".First" and typed by an entry the
\* name does not suggest, in front of a chain with Find
C22_Witness ==
    /\ fn = "AnalyzePreloads"
    /\ tpc = "done"
    /\ Len(output) = MaxCalls
    /\ Contains(input.preloadCalls[1].LineContent, <<" ", ".", "First">>)
    /\ output[1].Variable = "user"
    /\ output[1].FindLine = 10
    /\ output[1].Model = "Account"
    /\ Contains(input.preloadCalls[Len(output)].LineContent, MethodCall("Find"))
    /\ output[Len(output)].Variable = "orders"
    /\ output[Len(output)].FindLine = 10 * Len(output)
    /\ output[Len(output)].Model = "Order"

\* the input with the relation of call i replaced by rels[i]
WithRelations(in, rels) ==
    [in EXCEPT !.preloadCalls =
        [i \in DOMAIN in.preloadCalls |->
            [in.preloadCalls[i] EXCEPT !.Relation = rels[i]]]]

\* C23: what AnalyzePreloads computes besides Relation does not depend on
\* the Relation of the calls: any other relations give the same results
\* but for Relation; a result with a variable and a model is "correct"
\* whatever the relation; and no result is "error".
C23_RelationNotChecked ==
    (fn = "AnalyzePreloads" /\ tpc = "done")
        => /\ \A i \in DOMAIN output :
                /\ output[i].Status \in {"correct", "unknown"}
                /\ (output[i].Variable # "" /\ output[i].Model # "")
                      => output[i].Status = "correct"
           /\ \A rels \in [DOMAIN input.preloadCalls -> RelationNames] :
                LET other == WithRelations(input, rels)
                IN  AnalyzePreloads(other.preloadCalls, other.gormCalls,
                                    other.varAssignments, other.variableTypes)
                      = [i \in DOMAIN output |->
                            [output[i] EXCEPT !.Relation = rels[i]]]

\* a relation that is no field of Order, on a call resolved to Order and
\* reported correct
C23_Witness ==
    /\ fn = "AnalyzePreloads"
    /\ tpc = "done"
    /\ \E i \in DOMAIN output :
          /\ output[i].Relation = "Nope"
          /\ output[i].Variable = "orders"
          /\ output[i].Model = "Order"
          /\ output[i].Status = "correct"

====
